---- MODULE Spec2Model ----
(***************************************************************************)
(* crust: a tokenizer, a recursive-descent parser and a tree-walking       *)
(* evaluator for a parenthesised prefix language (src/main.rs).            *)
(*                                                                         *)
(* A text is a sequence of characters; a character is named by a string    *)
(* ("U+00E9" is one character whose UTF-8 encoding is two bytes long).     *)
(* u64 values are modelled modulo 2^WordBits: TLC's integers are 32 bits   *)
(* wide, so the width of the machine word is scaled down.                  *)
(***************************************************************************)
EXTENDS Integers, Sequences, FiniteSets, TLC

\* ---------------------------------------------------------------- bounds
WordBits == 5
MaxWordLen == 5
MaxSrcLen == 5
MaxToks == 7
MaxArgs == 2
MaxRoots == 3

Modulus == 2 ^ WordBits

VARIABLES
    src,              \* the source text (main: args.nth(1)); the word given to separate
    pieces,           \* the Vec<&str> separate returns
    tokens,           \* the Vec<Token> lex returns
    n,                \* parse: the cursor n
    roots,            \* the Vec<Node> parse returns
    env,              \* eval_program: the HashMap from names to nodes
    k,                \* eval_program: how many roots the loop has evaluated
    res,              \* eval_program: res; eval: the value returned
    out,              \* the lines printed on stdout, in order
    pc,               \* where the run is
    overflow_checks   \* the build: are arithmetic overflow checks compiled in

vars == <<src, pieces, tokens, n, roots, env, k, res, out, pc, overflow_checks>>

\* ------------------------------------------------------------------ text
\* The characters sources are drawn from.
Chars == {"(", ")", " ", "x", "1", "/", "U+00E9"}

\* char::len_utf8: the number of bytes of a character's encoding.
Width(c) == IF c = "U+00E9" THEN 2 ELSE 1

RECURSIVE ByteLen(_)
ByteLen(s) == IF s = <<>> THEN 0 ELSE Width(Head(s)) + ByteLen(Tail(s))

\* The byte index char_indices reports for the j-th character (j from 1).
ByteIndex(s, j) == ByteLen(SubSeq(s, 1, j - 1))

IsCharBoundary(s, b) == \E j \in 1..(Len(s) + 1) : ByteIndex(s, j) = b

\* &s[from..to] with byte offsets: panics unless both are character boundaries.
StrSlice(s, from, to) ==
    IF from <= to /\ IsCharBoundary(s, from) /\ IsCharBoundary(s, to)
    THEN LET lo == CHOOSE j \in 1..(Len(s) + 1) : ByteIndex(s, j) = from
             hi == CHOOSE j \in 1..(Len(s) + 1) : ByteIndex(s, j) = to
         IN  [ok |-> TRUE, str |-> SubSeq(s, lo, hi - 1)]
    ELSE [ok |-> FALSE, str |-> <<>>]

IsWhitespace(c) == c \in {" ", "\t", "\n"}

IsDigit(c) == c \in {"0", "1", "2", "3", "4", "5", "6", "7", "8", "9"}

DigitVal(c) ==
    CASE c = "0" -> 0 [] c = "1" -> 1 [] c = "2" -> 2 [] c = "3" -> 3
      [] c = "4" -> 4 [] c = "5" -> 5 [] c = "6" -> 6 [] c = "7" -> 7
      [] c = "8" -> 8 [] c = "9" -> 9

\* ------------------------------------------------------------- tokens, nodes
LeftParen == [t |-> "LeftParen", n |-> 0, s |-> <<>>]
RightParen == [t |-> "RightParen", n |-> 0, s |-> <<>>]
NumberTok(v) == [t |-> "Number", n |-> v, s |-> <<>>]
SymbolTok(w) == [t |-> "Symbol", n |-> 0, s |-> w]

Symbol(name) == [t |-> "Symbol", s |-> name, n |-> 0, args |-> <<>>]
Number(v) == [t |-> "Number", s |-> <<>>, n |-> v, args |-> <<>>]
Application(name, args) == [t |-> "Application", s |-> name, n |-> 0, args |-> args]

\* ---------------------------------------------------------------- separate
Separators == {"(", ")"}

RECURSIVE SeparateLoop(_, _, _, _, _, _)
SeparateLoop(s, separators, j, from, to, v) ==
    IF j > Len(s)
    THEN IF to > from
         THEN LET p == StrSlice(s, from, to)
              IN  IF p.ok THEN [ok |-> TRUE, v |-> Append(v, p.str)]
                  ELSE [ok |-> FALSE, v |-> <<>>]
         ELSE [ok |-> TRUE, v |-> v]
    ELSE LET c == s[j]
             i == ByteIndex(s, j)
         IN  IF c \in separators
             THEN LET run == IF to > from THEN StrSlice(s, from, to)
                             ELSE [ok |-> TRUE, str |-> <<>>]
                      sep == StrSlice(s, i, i + 1)
                      v1 == IF to > from THEN Append(v, run.str) ELSE v
                  IN  IF run.ok /\ sep.ok
                      THEN SeparateLoop(s, separators, j + 1, i + 1, i + 1,
                                        Append(v1, sep.str))
                      ELSE [ok |-> FALSE, v |-> <<>>]
             ELSE SeparateLoop(s, separators, j + 1, from, to + 1, v)

separate(s, separators) == SeparateLoop(s, separators, 1, 0, 0, <<>>)

\* --------------------------------------------------------------------- lex
\* str::split_whitespace (after trim): the maximal runs of non-whitespace.
RECURSIVE SplitLoop(_, _, _)
SplitLoop(s, word, acc) ==
    IF s = <<>>
    THEN IF word = <<>> THEN acc ELSE Append(acc, word)
    ELSE IF IsWhitespace(Head(s))
         THEN SplitLoop(Tail(s), <<>>, IF word = <<>> THEN acc ELSE Append(acc, word))
         ELSE SplitLoop(Tail(s), Append(word, Head(s)), acc)

split_whitespace(s) == SplitLoop(s, <<>>, <<>>)

\* u64::from_str: an optional '+', then one or more decimal digits, the value
\* within the word; -1 stands for Err.
RECURSIVE FromDigits(_, _)
FromDigits(ds, acc) ==
    IF ds = <<>> THEN acc
    ELSE LET nxt == acc * 10 + DigitVal(Head(ds))
         IN  IF nxt >= Modulus THEN -1 ELSE FromDigits(Tail(ds), nxt)

from_str(w) ==
    LET ds == IF w # <<>> /\ Head(w) = "+" THEN Tail(w) ELSE w
    IN  IF ds = <<>> \/ \E j \in 1..Len(ds) : ~IsDigit(ds[j])
        THEN -1
        ELSE FromDigits(ds, 0)

\* The closure of lex's map.
Classify(w) ==
    IF w = <<"(">> THEN LeftParen
    ELSE IF w = <<")">> THEN RightParen
    ELSE IF from_str(w) >= 0 THEN NumberTok(from_str(w))
    ELSE SymbolTok(w)

RECURSIVE FlatMapSeparate(_)
FlatMapSeparate(words) ==
    IF words = <<>> THEN [ok |-> TRUE, v |-> <<>>]
    ELSE LET h == separate(Head(words), Separators)
             r == FlatMapSeparate(Tail(words))
         IN  IF h.ok /\ r.ok THEN [ok |-> TRUE, v |-> h.v \o r.v]
             ELSE [ok |-> FALSE, v |-> <<>>]

lex(s) ==
    LET p == FlatMapSeparate(split_whitespace(s))
    IN  IF p.ok
        THEN [ok |-> TRUE, tokens |-> [i \in 1..Len(p.v) |-> Classify(p.v[i])]]
        ELSE [ok |-> FALSE, tokens |-> <<>>]

\* ------------------------------------------------------------------- parse
ExpPanic == [ok |-> FALSE, n |-> 0, node |-> Number(0)]

RECURSIVE parse_exp(_), ParseArgs(_, _, _)

\* Mutant of ParseArgs: i += n + 1, one token too far after each argument.
ParseArgsSkips(toks, i, args) ==
    IF i >= Len(toks) THEN [ok |-> FALSE, i |-> i, args |-> <<>>]
    ELSE IF toks[i + 1] = RightParen THEN [ok |-> TRUE, i |-> i, args |-> args]
    ELSE LET r == parse_exp(SubSeq(toks, i + 1, Len(toks)))
         IN  IF r.ok THEN ParseArgs(toks, i + r.n + 1, Append(args, r.node))
             ELSE [ok |-> FALSE, i |-> i, args |-> <<>>]

\* Mutant of parse_exp: the token after LeftParen is not required to be a Symbol.
parse_exp_AnyName(toks) ==
    IF Len(toks) = 0 THEN ExpPanic
    ELSE IF toks[1].t = "LeftParen"
    THEN IF Len(toks) < 3 THEN ExpPanic
         ELSE LET r == ParseArgs(toks, 2, <<>>)
              IN  IF r.ok
                  THEN [ok |-> TRUE, n |-> r.i + 1,
                        node |-> Application(toks[2].s, r.args)]
                  ELSE ExpPanic
    ELSE IF toks[1].t = "Number" THEN [ok |-> TRUE, n |-> 1, node |-> Number(toks[1].n)]
    ELSE IF toks[1].t = "Symbol" THEN [ok |-> TRUE, n |-> 1, node |-> Symbol(toks[1].s)]
    ELSE ExpPanic

\* parse_exp: [ok, n, node]; ok is FALSE when it panics.
parse_exp(toks) ==
    IF Len(toks) = 0 THEN ExpPanic
    ELSE IF toks[1].t = "LeftParen"
    THEN IF Len(toks) < 3 THEN ExpPanic
         ELSE IF toks[2].t # "Symbol" THEN ExpPanic
         ELSE LET r == ParseArgs(toks, 2, <<>>)
              IN  IF r.ok
                  THEN [ok |-> TRUE, n |-> r.i + 1,
                        node |-> Application(toks[2].s, r.args)]
                  ELSE ExpPanic
    ELSE IF toks[1].t = "Number" THEN [ok |-> TRUE, n |-> 1, node |-> Number(toks[1].n)]
    ELSE IF toks[1].t = "Symbol" THEN [ok |-> TRUE, n |-> 1, node |-> Symbol(toks[1].s)]
    ELSE ExpPanic

\* The while loop of parse_exp; i is the code's index (from 0), tokens[i] panics
\* when i is out of bounds.
ParseArgs(toks, i, args) ==
    IF i >= Len(toks) THEN [ok |-> FALSE, i |-> i, args |-> <<>>]
    ELSE IF toks[i + 1] = RightParen THEN [ok |-> TRUE, i |-> i, args |-> args]
    ELSE LET r == parse_exp(SubSeq(toks, i + 1, Len(toks)))
         IN  IF r.ok THEN ParseArgs(toks, i + r.n, Append(args, r.node))
             ELSE [ok |-> FALSE, i |-> i, args |-> <<>>]

\* The while loop of parse, then its assertion.
RECURSIVE ParseLoop(_, _, _)
ParseLoop(toks, m, v) ==
    IF m < Len(toks)
    THEN LET r == parse_exp(SubSeq(toks, m + 1, Len(toks)))
         IN  IF r.ok THEN ParseLoop(toks, m + r.n, Append(v, r.node))
             ELSE [st |-> "panic", n |-> m, roots |-> <<>>]
    ELSE IF m = Len(toks) THEN [st |-> "ok", n |-> m, roots |-> v]
    ELSE [st |-> "assert", n |-> m, roots |-> <<>>]

parse(toks) == ParseLoop(toks, 0, <<>>)

\* -------------------------------------------------------------------- eval
Plus == <<"+">>
Minus == <<"-">>
Times == <<"*">>
Divide == <<"/">>
Define == <<"d", "e", "f", "i", "n", "e">>

\* HashMap::new and HashMap::insert.
EmptyEnv == [x \in {} |-> Number(0)]
Insert(e, name, node) ==
    [x \in (DOMAIN e) \cup {name} |-> IF x = name THEN node ELSE e[x]]

Ret(v, e) == [st |-> "ok", val |-> v, env |-> e]
EvalPanic == [st |-> "panic", val |-> 0, env |-> EmptyEnv]
EvalDiverge == [st |-> "diverge", val |-> 0, env |-> EmptyEnv]

\* Mutant of ArithOp: 0 / 0 is 0 instead of a panic.
ArithOpZeroByZero(op, acc, a, checks) ==
    LET exact == CASE op = Plus -> acc + a
                   [] op = Minus -> acc - a
                   [] op = Times -> acc * a
                   [] op = Divide -> IF a = 0 THEN (IF acc = 0 THEN 0 ELSE -1)
                                     ELSE acc \div a
    IN  IF op = Divide THEN exact
        ELSE IF exact >= 0 /\ exact < Modulus THEN exact
        ELSE IF checks THEN -1
        ELSE exact % Modulus

\* acc + a, acc - a, acc * a and res / n on u64; -1 stands for a panic.  An
\* overflow panics in a build with overflow checks and wraps in one without.
ArithOp(op, acc, a, checks) ==
    LET exact == CASE op = Plus -> acc + a
                   [] op = Minus -> acc - a
                   [] op = Times -> acc * a
                   [] op = Divide -> IF a = 0 THEN -1 ELSE acc \div a
    IN  IF op = Divide THEN exact
        ELSE IF exact >= 0 /\ exact < Modulus THEN exact
        ELSE IF checks THEN -1
        ELSE exact % Modulus

RECURSIVE eval(_, _, _, _), Fold(_, _, _, _, _, _, _)
\* Mutant of eval: define evaluates its second argument and binds the value.
eval_EagerDefine(root, e, path, checks) ==
    IF root.t = "Symbol"
    THEN IF root.s \notin DOMAIN e THEN EvalPanic
         ELSE IF <<root.s, e>> \in path THEN EvalDiverge
         ELSE eval(e[root.s], e, path \cup {<<root.s, e>>}, checks)
    ELSE IF root.t = "Number" THEN Ret(root.n, e)
    ELSE IF root.s = Plus THEN Fold(Plus, root.args, 1, 0, e, path, checks)
    ELSE IF root.s = Minus THEN Fold(Minus, root.args, 1, 0, e, path, checks)
    ELSE IF root.s = Times THEN Fold(Times, root.args, 1, 1, e, path, checks)
    ELSE IF root.s = Divide
    THEN IF Len(root.args) = 0 THEN EvalPanic
         ELSE LET first == eval(root.args[1], e, path, checks)
              IN  IF first.st # "ok" THEN first
                  ELSE Fold(Divide, root.args, 2, first.val, first.env, path, checks)
    ELSE IF root.s = Define
    THEN IF Len(root.args) = 0 THEN EvalPanic
         ELSE IF root.args[1].t # "Symbol" THEN EvalPanic
         ELSE IF Len(root.args) < 2 THEN EvalPanic
         ELSE LET v == eval(root.args[2], e, path, checks)
              IN  IF v.st # "ok" THEN v
                  ELSE Ret(0, Insert(v.env, root.args[1].s, Number(v.val)))
    ELSE EvalPanic

\* eval(root, env): [st, val, env].  path holds the symbol lookups in progress,
\* each with the environment it began in: evaluation is a function of the node
\* and the environment, so meeting one of them again is a recursion without end.
eval(root, e, path, checks) ==
    IF root.t = "Symbol"
    THEN IF root.s \notin DOMAIN e THEN EvalPanic
         ELSE IF <<root.s, e>> \in path THEN EvalDiverge
         ELSE eval(e[root.s], e, path \cup {<<root.s, e>>}, checks)
    ELSE IF root.t = "Number" THEN Ret(root.n, e)
    ELSE IF root.s = Plus THEN Fold(Plus, root.args, 1, 0, e, path, checks)
    ELSE IF root.s = Minus THEN Fold(Minus, root.args, 1, 0, e, path, checks)
    ELSE IF root.s = Times THEN Fold(Times, root.args, 1, 1, e, path, checks)
    ELSE IF root.s = Divide
    THEN IF Len(root.args) = 0 THEN EvalPanic
         ELSE LET first == eval(root.args[1], e, path, checks)
              IN  IF first.st # "ok" THEN first
                  ELSE Fold(Divide, root.args, 2, first.val, first.env, path, checks)
    ELSE IF root.s = Define
    THEN IF Len(root.args) = 0 THEN EvalPanic
         ELSE IF root.args[1].t # "Symbol" THEN EvalPanic
         ELSE IF Len(root.args) < 2 THEN EvalPanic
         ELSE Ret(0, Insert(e, root.args[1].s, root.args[2]))
    ELSE EvalPanic

\* The lazy map of eval over the arguments, consumed by the fold: argument i is
\* evaluated, then combined, before argument i + 1 is evaluated.
Fold(op, args, i, acc, e, path, checks) ==
    IF i > Len(args) THEN Ret(acc, e)
    ELSE LET a == eval(args[i], e, path, checks)
         IN  IF a.st # "ok" THEN a
             ELSE LET v == ArithOp(op, acc, a.val, checks)
                  IN  IF v < 0 THEN EvalPanic
                      ELSE Fold(op, args, i + 1, v, a.env, path, checks)

\* ----------------------------------------------------------------- actions
RootLine(node) == [line |-> "root", node |-> node, val |-> 0]
ResLine(v) == [line |-> "res", node |-> Number(0), val |-> v]
FinalLine(v) == [line |-> "final", node |-> Number(0), val |-> v]

\* A call of separate on the word src.
Separate ==
    /\ pc = "separate"
    /\ LET r == separate(src, Separators)
       IN  /\ pc' = IF r.ok THEN "separated" ELSE "separate_panic"
           /\ pieces' = r.v
    /\ UNCHANGED <<src, tokens, n, roots, env, k, res, out, overflow_checks>>

\* main: let tokens = lex(&source)
LexStep ==
    /\ pc = "lex"
    /\ LET r == lex(src)
       IN  /\ pc' = IF r.ok THEN "parse" ELSE "lex_panic"
           /\ tokens' = r.tokens
    /\ UNCHANGED <<src, pieces, n, roots, env, k, res, out, overflow_checks>>

\* main: let asts = parse(&tokens)
ParseStep ==
    /\ pc = "parse"
    /\ LET r == parse(tokens)
       IN  /\ pc' = CASE r.st = "ok" -> "eval"
                      [] r.st = "panic" -> "parse_panic"
                      [] r.st = "assert" -> "parse_assert"
           /\ roots' = r.roots
           /\ n' = r.n
    /\ UNCHANGED <<src, pieces, tokens, env, k, res, out, overflow_checks>>

\* Mutant of EvalRoot: every root is evaluated in a fresh environment.
EvalRootFreshEnv ==
    /\ pc = "eval"
    /\ k < Len(roots)
    /\ LET root == roots[k + 1]
           r == eval(root, EmptyEnv, {}, overflow_checks)
       IN  IF r.st = "ok"
           THEN /\ res' = r.val
                /\ env' = r.env
                /\ out' = out \o <<RootLine(root), ResLine(r.val)>>
                /\ k' = k + 1
                /\ pc' = pc
           ELSE /\ out' = Append(out, RootLine(root))
                /\ pc' = IF r.st = "panic" THEN "eval_panic" ELSE "diverged"
                /\ UNCHANGED <<res, env, k>>
    /\ UNCHANGED <<src, pieces, tokens, n, roots, overflow_checks>>

\* Mutant of EvalRoot: a root that panics is skipped and the loop goes on.
EvalRootIsolating ==
    /\ pc = "eval"
    /\ k < Len(roots)
    /\ LET root == roots[k + 1]
           r == eval(root, env, {}, overflow_checks)
       IN  IF r.st = "ok"
           THEN /\ res' = r.val
                /\ env' = r.env
                /\ out' = out \o <<RootLine(root), ResLine(r.val)>>
                /\ k' = k + 1
                /\ pc' = pc
           ELSE /\ out' = Append(out, RootLine(root))
                /\ k' = k + 1
                /\ pc' = pc
                /\ UNCHANGED <<res, env>>
    /\ UNCHANGED <<src, pieces, tokens, n, roots, overflow_checks>>

\* One iteration of the for loop of eval_program.
EvalRoot ==
    /\ pc = "eval"
    /\ k < Len(roots)
    /\ LET root == roots[k + 1]
           r == eval(root, env, {}, overflow_checks)
       IN  IF r.st = "ok"
           THEN /\ res' = r.val
                /\ env' = r.env
                /\ out' = out \o <<RootLine(root), ResLine(r.val)>>
                /\ k' = k + 1
                /\ pc' = pc
           ELSE /\ out' = Append(out, RootLine(root))
                /\ pc' = IF r.st = "panic" THEN "eval_panic" ELSE "diverged"
                /\ UNCHANGED <<res, env, k>>
    /\ UNCHANGED <<src, pieces, tokens, n, roots, overflow_checks>>

\* eval_program returns res and main prints it.
Finish ==
    /\ pc = "eval"
    /\ k = Len(roots)
    /\ out' = Append(out, FinalLine(res))
    /\ pc' = "done"
    /\ UNCHANGED <<src, pieces, tokens, n, roots, env, k, res, overflow_checks>>

\* One call eval(&roots[0], &mut env).
EvalCall ==
    /\ pc = "call"
    /\ LET r == eval(roots[1], env, {}, overflow_checks)
       IN  /\ pc' = CASE r.st = "ok" -> "returned"
                      [] r.st = "panic" -> "eval_panic"
                      [] r.st = "diverge" -> "diverged"
           /\ res' = IF r.st = "ok" THEN r.val ELSE res
           /\ env' = IF r.st = "ok" THEN r.env ELSE env
    /\ UNCHANGED <<src, pieces, tokens, n, roots, k, out, overflow_checks>>

\* ---------------------------------------------------------- specifications
SeqsUpTo(S, len) == UNION {[1..m -> S] : m \in 0..len}

\* The whole run of main on a source text.
Sources == SeqsUpTo(Chars, MaxSrcLen)

Init ==
    /\ src \in Sources
    /\ pieces = <<>>
    /\ tokens = <<>>
    /\ n = 0
    /\ roots = <<>>
    /\ env = EmptyEnv
    /\ k = 0
    /\ res = 0
    /\ out = <<>>
    /\ pc = "lex"
    /\ overflow_checks \in BOOLEAN

Next == LexStep \/ ParseStep \/ EvalRoot \/ Finish

Spec == Init /\ [][Next]_vars

\* separate on one whitespace-free word.
Words == SeqsUpTo(Chars \ {" "}, MaxWordLen)

InitSeparate ==
    /\ src \in Words
    /\ pieces = <<>>
    /\ tokens = <<>>
    /\ n = 0
    /\ roots = <<>>
    /\ env = EmptyEnv
    /\ k = 0
    /\ res = 0
    /\ out = <<>>
    /\ pc = "separate"
    /\ overflow_checks = FALSE

NextSeparate == Separate

SpecSeparate == InitSeparate /\ [][NextSeparate]_vars

\* parse on a token sequence (every token sequence is the lex of some source:
\* its tokens written out with a space between them).
TokenKinds == {LeftParen, RightParen, NumberTok(1), SymbolTok(<<"x">>), SymbolTok(Divide)}
TokenSeqs == SeqsUpTo(TokenKinds, MaxToks)

InitParse ==
    /\ src = <<>>
    /\ pieces = <<>>
    /\ tokens \in TokenSeqs
    /\ n = 0
    /\ roots = <<>>
    /\ env = EmptyEnv
    /\ k = 0
    /\ res = 0
    /\ out = <<>>
    /\ pc = "parse"
    /\ overflow_checks = FALSE

NextParse == ParseStep

SpecParse == InitParse /\ [][NextParse]_vars

\* The nodes programs are built from.
Names == {<<"x">>, <<"y">>}
Unknown == <<"f">>
Funs == {Plus, Minus, Times, Divide, Define, Unknown}
Nums == {0, 1, 2, 5, Modulus - 1}
Leaves == {Number(v) : v \in Nums} \cup {Symbol(s) : s \in Names}
Apps(F, S) == {Application(f, a) : f \in F, a \in SeqsUpTo(S, MaxArgs)}

\* One call of eval: on an application whose arguments are leaves or small
\* applications, in an environment earlier defines can have left.
InnerNodes ==
    {Application(f, <<>>) : f \in {Plus, Divide, Unknown}}
        \cup {Application(Define, <<Symbol(<<"x">>), Number(1)>>),
              Application(Plus, <<Symbol(<<"y">>), Number(1)>>)}
EvalNodes == Leaves \cup Apps(Funs, Leaves \cup InnerNodes)
BoundNodes ==
    {Number(2), Symbol(<<"x">>), Symbol(<<"y">>),
     Application(Plus, <<Symbol(<<"x">>), Number(1)>>), Application(Unknown, <<>>)}
Envs == UNION {[D -> BoundNodes] : D \in SUBSET Names}

InitEval ==
    /\ src = <<>>
    /\ pieces = <<>>
    /\ tokens = <<>>
    /\ n = 0
    /\ roots \in {<<node>> : node \in EvalNodes}
    /\ env \in Envs
    /\ k = 0
    /\ res = 0
    /\ out = <<>>
    /\ pc = "call"
    /\ overflow_checks \in BOOLEAN

NextEval == EvalCall

SpecEval == InitEval /\ [][NextEval]_vars

\* eval_program and the end of main, on the roots of a parsed program.
DefBodies == {Number(2), Number(5), Symbol(<<"x">>), Symbol(<<"y">>)}
ProgRoots ==
    {Symbol(s) : s \in Names}
        \cup {Application(Define, <<Symbol(s), e>>) : s \in Names, e \in DefBodies}
        \cup {Application(Define, <<Symbol(<<"x">>),
                                    Application(Plus, <<Symbol(<<"x">>), Number(1)>>)>>),
              Application(Plus, <<Symbol(<<"x">>), Symbol(<<"x">>)>>),
              Application(Plus, <<Application(Define, <<Symbol(<<"y">>), Number(2)>>),
                                  Symbol(<<"y">>)>>),
              Application(Minus, <<Number(5)>>),
              Application(Divide, <<>>),
              Application(Unknown, <<Number(1)>>)}
Programs == SeqsUpTo(ProgRoots, MaxRoots)

InitProgram ==
    /\ src = <<>>
    /\ pieces = <<>>
    /\ tokens = <<>>
    /\ n = 0
    /\ roots \in Programs
    /\ env = EmptyEnv
    /\ k = 0
    /\ res = 0
    /\ out = <<>>
    /\ pc = "eval"
    /\ overflow_checks \in BOOLEAN

NextProgram == EvalRoot \/ Finish

SpecProgram == InitProgram /\ [][NextProgram]_vars

\* ------------------------------------------------------------------ claims
RECURSIVE Concat(_)
Concat(v) == IF v = <<>> THEN <<>> ELSE Head(v) \o Concat(Tail(v))

IsParen(p) == p = <<"(">> \/ p = <<")">>
ParenFree(p) == \A j \in 1..Len(p) : p[j] \notin Separators

\* C1: for every whitespace-free word s, separate(s, "()") returns non-empty
\* pieces whose concatenation is s, each paren a piece of its own, every other
\* piece a maximal run of non-paren characters.
C1_SeparatePartitionsWord ==
    pc # "separate" =>
        /\ pc = "separated"
        /\ Concat(pieces) = src
        /\ \A i \in 1..Len(pieces) :
               /\ pieces[i] # <<>>
               /\ IsParen(pieces[i]) \/ ParenFree(pieces[i])
        /\ \A i \in 1..(Len(pieces) - 1) :
               ~(ParenFree(pieces[i]) /\ ParenFree(pieces[i + 1]))

IsDelimiter(c) == IsWhitespace(c) \/ c \in Separators

\* The maximal runs of non-whitespace, non-paren characters of s, as intervals.
MaximalRuns(s) ==
    {r \in (1..Len(s)) \X (1..Len(s)) :
        /\ r[1] <= r[2]
        /\ \A j \in r[1]..r[2] : ~IsDelimiter(s[j])
        /\ r[1] = 1 \/ IsDelimiter(s[r[1] - 1])
        /\ r[2] = Len(s) \/ IsDelimiter(s[r[2] + 1])}

RECURSIVE InOrder(_)
InOrder(S) ==
    IF S = {} THEN <<>>
    ELSE LET m == CHOOSE r \in S : \A q \in S : r[1] <= q[1]
         IN  <<m>> \o InOrder(S \ {m})

\* The texts of the runs of s that are no integer literal, left to right.
SymbolRuns(s) ==
    LET runs == InOrder({r \in MaximalRuns(s) : from_str(SubSeq(s, r[1], r[2])) < 0})
    IN  [i \in 1..Len(runs) |-> SubSeq(s, runs[i][1], runs[i][2])]

SymbolTexts(toks) ==
    LET syms == SelectSeq(toks, LAMBDA tok : tok.t = "Symbol")
    IN  [i \in 1..Len(syms) |-> syms[i].s]

\* C2: lex returns a token sequence for every source text, and every maximal
\* run of non-whitespace, non-paren characters that is no u64 literal is one
\* Symbol holding the text of the run.
C2_LexIsTotal ==
    pc # "lex" =>
        /\ pc # "lex_panic"
        /\ SymbolTexts(tokens) = SymbolRuns(src)

\* Writing a node back out as tokens.
RECURSIVE Unparse(_), UnparseAll(_)
Unparse(node) ==
    IF node.t = "Number" THEN <<NumberTok(node.n)>>
    ELSE IF node.t = "Symbol" THEN <<SymbolTok(node.s)>>
    ELSE <<LeftParen, SymbolTok(node.s)>> \o UnparseAll(node.args) \o <<RightParen>>
UnparseAll(nodes) ==
    IF nodes = <<>> THEN <<>> ELSE Unparse(Head(nodes)) \o UnparseAll(Tail(nodes))

Suffix(toks, i) == SubSeq(toks, i, Len(toks))

\* C3: when parse returns, every parse_exp call (each is on a suffix of the
\* tokens) consumed between 1 and all of its slice, the cursor ends at
\* tokens.len() (the assertion never fails), and the roots written back out are
\* the tokens.
C3_ParseConsumesEveryTokenOnce ==
    /\ pc # "parse_assert"
    /\ pc = "eval" =>
          /\ n = Len(tokens)
          /\ UnparseAll(roots) = tokens
          /\ \A i \in 1..Len(tokens) :
                LET r == parse_exp(Suffix(tokens, i))
                IN  r.ok => /\ 1 <= r.n
                            /\ r.n <= Len(Suffix(tokens, i))
                            /\ Unparse(r.node) = SubSeq(tokens, i, i + r.n - 1)

\* parse returned a nested application and a second root.
C3_Witness ==
    /\ pc = "eval"
    /\ Len(roots) = 2
    /\ roots[1].t = "Application"
    /\ Len(roots[1].args) = 1
    /\ roots[1].args[1].t = "Application"
    /\ roots[2].t = "Number"

\* The grammar E ::= Number | Symbol | LeftParen Symbol E* RightParen.
RECURSIVE IsExp(_), IsExpSeq(_)
IsExp(toks) ==
    \/ Len(toks) = 1 /\ toks[1].t \in {"Number", "Symbol"}
    \/ /\ Len(toks) >= 3
       /\ toks[1] = LeftParen
       /\ toks[2].t = "Symbol"
       /\ toks[Len(toks)] = RightParen
       /\ IsExpSeq(SubSeq(toks, 3, Len(toks) - 1))
IsExpSeq(toks) ==
    \/ toks = <<>>
    \/ \E m \in 1..Len(toks) :
          IsExp(SubSeq(toks, 1, m)) /\ IsExpSeq(SubSeq(toks, m + 1, Len(toks)))

\* C10: parse returns roots if and only if the tokens are a concatenation of
\* expressions of the grammar; on every other token sequence it panics.
C10_ParseAcceptsExactlyTheGrammar ==
    pc # "parse" =>
        /\ pc = "eval" <=> IsExpSeq(tokens)
        /\ ~IsExpSeq(tokens) => pc = "parse_panic" /\ roots = <<>>

\* parse panicked on an application whose closing paren is missing, after a
\* complete first expression.
C10_Witness ==
    /\ pc = "parse_panic"
    /\ Len(tokens) >= 4
    /\ tokens[1].t = "Number"
    /\ tokens[2] = LeftParen
    /\ tokens[3].t = "Symbol"
    /\ \A i \in 3..Len(tokens) : tokens[i] # RightParen


ArithFuns == {Plus, Minus, Times}
IsApplicationOf(node, F) == node.t = "Application" /\ node.s \in F

\* The results of evaluating args left to right, each in the environment the
\* one before it left, up to and including the first that does not return.
RECURSIVE ArgResults(_, _, _)
ArgResults(args, e, checks) ==
    IF args = <<>> THEN <<>>
    ELSE LET r == eval(Head(args), e, {}, checks)
         IN  IF r.st = "ok" THEN <<r>> \o ArgResults(Tail(args), r.env, checks)
             ELSE <<r>>

AllReturn(rs, args) == Len(rs) = Len(args) /\ \A i \in 1..Len(rs) : rs[i].st = "ok"

Front(s) == SubSeq(s, 1, Len(s) - 1)
Last(s) == s[Len(s)]

\* The left-to-right fold of vals in wrapping arithmetic, from the seed of op.
RECURSIVE WrappedFold(_, _)
WrappedFold(op, vals) ==
    IF vals = <<>> THEN (IF op = Times THEN 1 ELSE 0)
    ELSE LET acc == WrappedFold(op, Front(vals))
         IN  CASE op = Plus -> (acc + Last(vals)) % Modulus
               [] op = Minus -> (acc - Last(vals)) % Modulus
               [] op = Times -> (acc * Last(vals)) % Modulus

\* C4: an Application of "+", "-" or "*" whose arguments all evaluate
\* successfully never fails and returns the wrapping fold of their values.
C4_ArithmeticWrapsAndNeverFails ==
    [][(pc = "call" /\ IsApplicationOf(roots[1], ArithFuns)
          /\ AllReturn(ArgResults(roots[1].args, env, overflow_checks), roots[1].args))
        => LET rs == ArgResults(roots[1].args, env, overflow_checks)
           IN  /\ pc' = "returned"
               /\ res' = WrappedFold(roots[1].s, [i \in 1..Len(rs) |-> rs[i].val])]_vars

\* a0 divided by a1, then by a2, ...
RECURSIVE SuccessiveQuotient(_)
SuccessiveQuotient(vals) ==
    IF Len(vals) = 1 THEN vals[1]
    ELSE SuccessiveQuotient(Front(vals)) \div Last(vals)

IsDefine(node) ==
    /\ IsApplicationOf(node, {Define})
    /\ Len(node.args) >= 2
    /\ node.args[1].t = "Symbol"

\* C6: (define s e ...) returns 0 without evaluating e and changes the
\* environment at exactly the key s, which then maps to the node e.
C6_DefineBindsTheNodeUnevaluated ==
    [][(pc = "call" /\ IsDefine(roots[1]))
        => LET s == roots[1].args[1].s
               e == roots[1].args[2]
           IN  /\ pc' = "returned"
               /\ res' = 0
               /\ DOMAIN env' = (DOMAIN env) \cup {s}
               /\ env'[s] = e
               /\ \A x \in (DOMAIN env) \ {s} : env'[x] = env[x]]_vars

\* (define x (f)) returned with x, bound before, now bound to the call of the
\* unknown function f, and y still bound.
C6_Witness ==
    /\ pc = "returned"
    /\ roots[1] = Application(Define, <<Symbol(<<"x">>), Application(Unknown, <<>>)>>)
    /\ res = 0
    /\ env[<<"x">>] = Application(Unknown, <<>>)
    /\ <<"y">> \in DOMAIN env

RECURSIVE HasDefine(_)
HasDefine(node) ==
    /\ node.t = "Application"
    /\ node.s = Define \/ \E i \in 1..Len(node.args) : HasDefine(node.args[i])

\* Programs whose only defines are roots binding a name to a define-free node:
\* the bindings made by root i are then read off root i.
PlainProgram(rs) ==
    \A i \in 1..Len(rs) :
        \/ ~HasDefine(rs[i])
        \/ IsDefine(rs[i]) /\ \A a \in 2..Len(rs[i].args) : ~HasDefine(rs[i].args[a])

Binders(rs, s, j) == {i \in 1..(j - 1) : IsDefine(rs[i]) /\ rs[i].args[1].s = s}
LastBinder(rs, s, j) ==
    CHOOSE i \in Binders(rs, s, j) : \A q \in Binders(rs, s, j) : q <= i

\* The number a node resolves to through the symbols bound before root j; -1
\* when it does not come to a number within fuel lookups.
RECURSIVE Resolve(_, _, _, _)
Resolve(rs, node, j, fuel) ==
    IF node.t = "Number" THEN node.n
    ELSE IF node.t = "Symbol" /\ fuel > 0 /\ Binders(rs, node.s, j) # {}
    THEN Resolve(rs, rs[LastBinder(rs, node.s, j)].args[2], j, fuel - 1)
    ELSE -1

DefineXFive == Application(Define, <<Symbol(<<"x">>), Number(5)>>)
PlusXX == Application(Plus, <<Symbol(<<"x">>), Symbol(<<"x">>)>>)

\* C7: the roots are evaluated left to right against one environment that
\* starts empty; a symbol root evaluates the node bound to it by the latest
\* earlier define, through further symbols; the value returned is the last
\* root's; (define x 5) (+ x x) returns 10.
C7_RootsShareOneEnvironment ==
    /\ pc = "done" =>
          /\ k = Len(roots)
          /\ Len(out) = 2 * Len(roots) + 1
          /\ res = IF roots = <<>> THEN 0 ELSE out[2 * Len(roots)].val
          /\ Last(out) = FinalLine(res)
    /\ PlainProgram(roots) =>
          \A j \in 1..Len(roots) :
              (roots[j].t = "Symbol" /\ Resolve(roots, roots[j], j, Len(roots)) >= 0) =>
                  /\ k = j - 1 => pc = "eval"
                  /\ k >= j => out[2 * j] = ResLine(Resolve(roots, roots[j], j, Len(roots)))
    /\ roots = <<DefineXFive, PlusXX>> =>
          /\ pc \in {"eval", "done"}
          /\ pc = "done" => res = 10

\* (define x 2) (define x 5) x returned 5: the later define replaced the
\* binding the first root made.
C7_Witness ==
    /\ pc = "done"
    /\ roots = <<Application(Define, <<Symbol(<<"x">>), Number(2)>>),
                 DefineXFive,
                 Symbol(<<"x">>)>>
    /\ res = 5

\* C8: every call of eval on a root terminates: it returns a number or panics.
C8_EvalTerminates == pc \in {"eval", "done", "eval_panic"}

\* The environment and the values of evaluating the first j roots in order
\* from the empty environment (all of them returning).
RECURSIVE EnvAfter(_, _, _)
EnvAfter(rs, j, checks) ==
    IF j = 0 THEN EmptyEnv
    ELSE eval(rs[j], EnvAfter(rs, j - 1, checks), {}, checks).env
ValueOf(rs, j, checks) == eval(rs[j], EnvAfter(rs, j - 1, checks), {}, checks).val

\* C9: a panic ends the run where it is raised: in lex or parse, nothing was
\* evaluated or printed; in the evaluation of root k + 1, the lines of the k
\* roots before it are out in order, nothing of a later root, and no final
\* result; a final result is printed only after every root returned.
C9_PanicAbortsTheRun ==
    /\ pc \in {"lex_panic", "parse_panic", "parse_assert"} => out = <<>> /\ k = 0
    /\ pc = "lex_panic" => tokens = <<>> /\ roots = <<>>
    /\ pc \in {"eval", "eval_panic", "done"} =>
          /\ k <= Len(roots)
          /\ Len(out) >= 2 * k
          /\ \A i \in 1..k :
                /\ out[2 * i - 1] = RootLine(roots[i])
                /\ out[2 * i].line = "res"
          /\ \A i \in 1..k : out[2 * i] = ResLine(ValueOf(roots, i, overflow_checks))
    /\ pc = "eval" => Len(out) = 2 * k
    /\ pc = "eval_panic" =>
          /\ k < Len(roots)
          /\ Len(out) = 2 * k + 1
          /\ out[2 * k + 1] = RootLine(roots[k + 1])
    /\ pc = "done" =>
          /\ k = Len(roots)
          /\ Len(out) = 2 * k + 1
          /\ out[2 * k + 1] = FinalLine(res)

\* The second of three roots panicked: one result line is out, then the root
\* line of the failing root, and nothing else.
C9_Witness ==
    /\ pc = "eval_panic"
    /\ Len(roots) = 3
    /\ k = 1
    /\ Len(out) = 3

====
